---- MODULE Spec2Model ----
(***************************************************************************)
(* Model of the task-tree engine of TaskMannageApp (src/App.tsx,           *)
(* src/components/TaskTree.tsx).  A forest is a sequence of Task records;  *)
(* a Task record carries its children as a nested sequence, exactly as the *)
(* TypeScript type does.  Optional fields (collapsed, priority, due, note, *)
(* completedAt) and nullable results hold Undefined or Some(v).            *)
(***************************************************************************)
EXTENDS Integers, Sequences, FiniteSets, TLC

VARIABLES
    tasks,      \* App state `tasks`: the forest
    mode,       \* App state `mode`: "input" | "structure"
    filter,     \* App state `filter`: "all" | "active" | "done"
    sortKey,    \* App state `sortKey`: "dueDate" | "priority" | "createdAt"
    sortOrder,  \* App state `sortOrder`: "asc" | "desc"
    isReportModalOpen,  \* App state of the daily report modal
    reportAnalysis,     \* Null or Some([completedTasks, problemTasks])
    isGenerating,
    generatedReport,    \* Null or Some(text)
    requests,   \* the handleGenerateReport calls that wait for fetch, in the order
                \* they started: the analysis each call captured, and whether it
                \* is the call started last
    generatedFor,       \* Null or Some(the analysis captured by the call that set
                        \* generatedReport)
    nextId,     \* the id the id generator hands out next (ids are never reused)
    now,        \* the latest reading of the wall clock by `new Date()`
    budget,     \* number of commands still to be explored (tab switches are free)
    last        \* the last command: its name, its arguments, the forest before it

sortVars == <<sortKey, sortOrder>>
reportVars == <<isReportModalOpen, reportAnalysis, isGenerating, generatedReport,
                requests, generatedFor>>
vars == <<tasks, mode, filter, sortVars, reportVars, nextId, now, budget, last>>

----------------------------------------------------------------------------
(* Bounds of the exploration *)

MaxNodes == 3       \* nodes of an initial forest; one more id can be created
MaxTime == 1        \* the clock reads 0..MaxTime
MaxCmds == 2        \* commands explored from the seed forest
MaxRequests == 2    \* generation requests that wait for their response at a time

Ids == 1..(MaxNodes + 1)            \* 0 stands for the empty drag payload
NoData == 0
DragData == {NoData} \cup Ids

----------------------------------------------------------------------------
(* Optional values *)

Undefined == <<>>
Some(v) == <<v>>
Null == Undefined
Defined(o) == o # Undefined
IsTrue(o) == o = Some(TRUE)         \* JS truthiness of an optional boolean

----------------------------------------------------------------------------
(* Task records: src/types.ts, with completedAt as App.tsx writes it *)

Task(id, text, priority, due, note, createdAt, done, completedAt, children) ==
    [id |-> id, text |-> text, done |-> done, collapsed |-> Undefined,
     children |-> children, priority |-> priority, due |-> due, note |-> note,
     createdAt |-> createdAt, completedAt |-> completedAt]

----------------------------------------------------------------------------
(* Pure tree functions of App.tsx *)

(* Callbacks are closures: a record naming the function and holding the     *)
(* values it captures.                                                     *)

\* doneToggled that leaves completedAt in place when a node becomes unfinished
doneToggled_keepsStamp(t, id, date) ==
    IF t.id = id
    THEN LET isNowDone == ~t.done
         IN [t EXCEPT !.done = isNowDone,
                      !.completedAt = IF isNowDone THEN Some(date) ELSE t.completedAt]
    ELSE t

\* doneToggled that marks the node done whatever it was
doneToggled_setsDone(t, id, date) ==
    IF t.id = id
    THEN [t EXCEPT !.done = TRUE, !.completedAt = Some(date)]
    ELSE t

\* the mapper App.toggleDone hands to mapTasks; `date` is what new Date() returns
doneToggled(t, id, date) ==
    IF t.id = id
    THEN LET isNowDone == ~t.done
         IN [t EXCEPT !.done = isNowDone,
                      !.completedAt = IF isNowDone THEN Some(date) ELSE Undefined]
    ELSE t

\* collapseToggled that also marks the node unfinished
collapseToggled_resetsDone(t, id) ==
    IF t.id = id
    THEN [t EXCEPT !.collapsed = Some(~IsTrue(t.collapsed)), !.done = FALSE]
    ELSE t

\* the mapper App.toggleCollapse hands to mapTasks
collapseToggled(t, id) ==
    IF t.id = id THEN [t EXCEPT !.collapsed = Some(~IsTrue(t.collapsed))] ELSE t

\* f(t) for a mapper closure f
callMapper(f, t) ==
    CASE f.fn = "doneToggled" -> doneToggled(t, f.id, f.date)
      [] f.fn = "collapseToggled" -> collapseToggled(t, f.id)

always == [fn |-> "always"]             \* () => true
isActive == [fn |-> "isActive"]         \* (t) => !t.done
isDone == [fn |-> "isDone"]             \* (t) => t.done
idIn(S) == [fn |-> "idIn", ids |-> S]   \* (t) => S.has(t.id)

\* pred(t) for a predicate closure pred
callPred(pred, t) ==
    CASE pred.fn = "always" -> TRUE
      [] pred.fn = "isActive" -> ~t.done
      [] pred.fn = "isDone" -> t.done
      [] pred.fn = "idIn" -> t.id \in pred.ids

clone(t) ==
    LET RECURSIVE go(_)
        go(u) == [u EXCEPT !.children = [i \in 1..Len(u.children) |-> go(u.children[i])]]
    IN go(t)

\* mapTasks that maps the nodes of the top level and cuts off their children
mapTasks_cutsChildren(arr, f) ==
    [i \in 1..Len(arr) |-> [callMapper(f, arr[i]) EXCEPT !.children = <<>>]]

RECURSIVE mapTasks(_, _)
mapTasks(arr, f) ==
    [i \in 1..Len(arr) |->
        [callMapper(f, arr[i]) EXCEPT !.children = mapTasks(arr[i].children, f)]]

countTasks(arr, pred) ==
    LET RECURSIVE walk(_)
        walk(xs) ==
            LET RECURSIVE each(_)
                each(k) ==
                    IF k = 0 THEN 0
                    ELSE each(k - 1)
                         + (IF callPred(pred, xs[k]) THEN 1 ELSE 0)
                         + (IF Len(xs[k].children) > 0 THEN walk(xs[k].children) ELSE 0)
            IN each(Len(xs))
    IN walk(arr)

\* removeById that forgets to keep the elements in which the id is not found
RECURSIVE removeById_losesUnmatched(_, _)
removeById_losesUnmatched(arr, id) ==
    LET RECURSIVE loop(_)
        loop(k) ==
            IF k = 0 THEN [removed |-> Null, rest |-> <<>>]
            ELSE LET acc == loop(k - 1)
                     t == arr[k]
                     sub == removeById_losesUnmatched(t.children, id)
                 IN IF t.id = id
                    THEN [removed |-> Some(clone(t)), rest |-> acc.rest]
                    ELSE IF sub.removed # Null
                    THEN [removed |-> sub.removed,
                          rest |-> Append(acc.rest, [t EXCEPT !.children = sub.rest])]
                    ELSE [removed |-> acc.removed, rest |-> acc.rest]
    IN loop(Len(arr))

\* removeById that leaves the children of the removed node in its place
RECURSIVE removeById_promotesChildren(_, _)
removeById_promotesChildren(arr, id) ==
    LET RECURSIVE loop(_)
        loop(k) ==
            IF k = 0 THEN [removed |-> Null, rest |-> <<>>]
            ELSE LET acc == loop(k - 1)
                     t == arr[k]
                     sub == removeById_promotesChildren(t.children, id)
                 IN IF t.id = id
                    THEN [removed |-> Some(clone(t)), rest |-> acc.rest \o t.children]
                    ELSE IF sub.removed # Null
                    THEN [removed |-> sub.removed,
                          rest |-> Append(acc.rest, [t EXCEPT !.children = sub.rest])]
                    ELSE [removed |-> acc.removed, rest |-> Append(acc.rest, t)]
    IN loop(Len(arr))

RECURSIVE removeById(_, _)
removeById(arr, id) ==
    LET RECURSIVE loop(_)
        \* the state of (removed, rest) after the first k elements of arr
        loop(k) ==
            IF k = 0 THEN [removed |-> Null, rest |-> <<>>]
            ELSE LET acc == loop(k - 1)
                     t == arr[k]
                     sub == removeById(t.children, id)
                 IN IF t.id = id
                    THEN [removed |-> Some(clone(t)), rest |-> acc.rest]
                    ELSE IF sub.removed # Null
                    THEN [removed |-> sub.removed,
                          rest |-> Append(acc.rest, [t EXCEPT !.children = sub.rest])]
                    ELSE [removed |-> acc.removed, rest |-> Append(acc.rest, t)]
    IN loop(Len(arr))

\* insertChild that looks for the parent among the roots only
insertChild_rootsOnly(arr, parentId, child) ==
    [i \in 1..Len(arr) |->
        IF arr[i].id = parentId
        THEN [arr[i] EXCEPT !.children = Append(arr[i].children, child)]
        ELSE arr[i]]

\* insertChild that puts the child first
RECURSIVE insertChild_prepends(_, _, _)
insertChild_prepends(arr, parentId, child) ==
    [i \in 1..Len(arr) |->
        IF arr[i].id = parentId
        THEN [arr[i] EXCEPT !.children = <<child>> \o arr[i].children]
        ELSE [arr[i] EXCEPT !.children = insertChild_prepends(arr[i].children, parentId, child)]]

RECURSIVE insertChild(_, _, _)
insertChild(arr, parentId, child) ==
    [i \in 1..Len(arr) |->
        IF arr[i].id = parentId
        THEN [arr[i] EXCEPT !.children = Append(arr[i].children, child)]
        ELSE [arr[i] EXCEPT !.children = insertChild(arr[i].children, parentId, child)]]

RECURSIVE findById(_, _)
findById(arr, id) ==
    LET RECURSIVE scan(_)
        \* the loop from element k on
        scan(k) ==
            IF k > Len(arr) THEN Null
            ELSE IF arr[k].id = id THEN Some(arr[k])
            ELSE LET f == findById(arr[k].children, id)
                 IN IF f # Null THEN f ELSE scan(k + 1)
    IN scan(1)

\* isDescendant that searches the ancestor itself along with its subtree
isDescendant_orSelf(arr, ancestorId, maybeDescendantId) ==
    LET a == findById(arr, ancestorId)
    IN IF a = Null THEN FALSE
       ELSE findById(<<a[1]>>, maybeDescendantId) # Null

\* isDescendant that looks at the direct children only
isDescendant_directOnly(arr, ancestorId, maybeDescendantId) ==
    LET a == findById(arr, ancestorId)
    IN IF a = Null THEN FALSE
       ELSE \E i \in 1..Len(a[1].children) : a[1].children[i].id = maybeDescendantId

isDescendant(arr, ancestorId, maybeDescendantId) ==
    LET a == findById(arr, ancestorId)
    IN IF a = Null THEN FALSE
       ELSE findById(a[1].children, maybeDescendantId) # Null

\* flattenTasks that lists the tasks of a level before any of their children
RECURSIVE flattenTasks_levelFirst(_)
flattenTasks_levelFirst(ts) ==
    LET RECURSIVE below(_)
        below(k) ==
            IF k = 0 THEN <<>>
            ELSE below(k - 1) \o flattenTasks_levelFirst(ts[k].children)
    IN ts \o below(Len(ts))

RECURSIVE flattenTasks(_)
flattenTasks(ts) ==
    LET RECURSIVE each(_)
        each(k) ==
            IF k = 0 THEN <<>>
            ELSE LET flat == Append(each(k - 1), ts[k])
                 IN IF Len(ts[k].children) > 0
                    THEN flat \o flattenTasks(ts[k].children)
                    ELSE flat
    IN each(Len(ts))

----------------------------------------------------------------------------
(* TaskTree.tsx: the filter *)

\* filterTasks that keeps a node only if the node itself satisfies pred
filterTasks_selfOnly(ts, pred) ==
    LET self(t) == callPred(pred, t)
        RECURSIVE visit(_)
        visit(arr) ==
            LET mapped == [i \in 1..Len(arr) |->
                              [arr[i] EXCEPT !.children = visit(arr[i].children)]]
            IN SelectSeq(mapped, self)
    IN visit(ts)

filterTasks(ts, pred) ==
    LET RECURSIVE predOrHasDescendant(_)
        predOrHasDescendant(t) ==
            callPred(pred, t)
            \/ \E i \in 1..Len(t.children) : predOrHasDescendant(t.children[i])
        RECURSIVE visit(_)
        visit(arr) ==
            LET mapped == [i \in 1..Len(arr) |->
                              [arr[i] EXCEPT !.children = visit(arr[i].children)]]
            IN SelectSeq(mapped, predOrHasDescendant)
    IN visit(ts)

filtered(ts, flt) ==
    IF flt = "active" THEN filterTasks(ts, isActive)
    ELSE IF flt = "done" THEN filterTasks(ts, isDone)
    ELSE ts

\* the ids of the Node components TaskTree mounts for the forest ts: the
\* children of a collapsed node are not mounted.  (The order in which the
\* siblings are handed over does not change which nodes are mounted.)
RECURSIVE renderedIds(_)
renderedIds(ts) ==
    UNION { {ts[i].id} \cup
            (IF ~IsTrue(ts[i].collapsed) /\ Len(ts[i].children) > 0
             THEN renderedIds(ts[i].children) ELSE {}) : i \in 1..Len(ts) }

----------------------------------------------------------------------------
(* App.tsx: the sorted view *)

\* The numbers the comparator computes with: finite ones, +-Infinity and NaN.
Fin(n) == [kind |-> "finite", n |-> n]
Infinity == [kind |-> "infinite", n |-> 1]
NaN == [kind |-> "NaN", n |-> 0]

\* a - b of JavaScript
minus(a, b) ==
    IF a.kind = "NaN" \/ b.kind = "NaN" THEN NaN
    ELSE IF a.kind = "finite" /\ b.kind = "finite" THEN Fin(a.n - b.n)
    ELSE IF a.kind = "infinite" /\ b.kind = "infinite"
         THEN (IF a.n = b.n THEN NaN ELSE a)
    ELSE IF a.kind = "infinite" THEN a
    ELSE [kind |-> "infinite", n |-> -b.n]

\* -a of JavaScript
negate(a) == [a EXCEPT !.n = -a.n]

\* one day (24 * 60 * 60 * 1000 ms) in the unit the model measures time in:
\* the clock ticks twice a day
Day == 2

\* new Date(due).getTime() for a date string "YYYY-MM-DD": `due` counts the days
\* from the day of construction, the result is the time of that midnight
getTime(due) == due * Day

priorityOrder == [p \in {"high", "medium", "low"} |->
                     IF p = "high" THEN 3 ELSE IF p = "medium" THEN 2 ELSE 1]

\* dueTime that ranks a node without a due date as due at time 0
dueTime_zeroWhenAbsent(t) == IF Defined(t.due) THEN Fin(getTime(t.due[1])) ELSE Fin(0)

\* a.due ? new Date(a.due).getTime() : Infinity
dueTime(t) == IF Defined(t.due) THEN Fin(getTime(t.due[1])) ELSE Infinity

\* a.priority ? priorityOrder[a.priority] : 0
priorityRank(t) == IF Defined(t.priority) THEN priorityOrder[t.priority[1]] ELSE 0

\* the comparator sortedTasks hands to Array.prototype.sort
comparator(key, order, a, b) ==
    LET comparison ==
            CASE key = "dueDate" -> minus(dueTime(a), dueTime(b))
              [] key = "priority" -> minus(Fin(priorityRank(b)), Fin(priorityRank(a)))
              [] key = "createdAt" -> minus(Fin(b.createdAt), Fin(a.createdAt))
    IN IF order = "asc" THEN comparison ELSE negate(comparison)

\* SortCompare of Array.prototype.sort: a NaN from the comparator counts as +0
SortCompare(key, order, x, y) ==
    LET v == comparator(key, order, x, y)
    IN IF v.kind = "NaN" THEN 0 ELSE v.n

\* arraySort that puts an element in front of the elements it compares equal to
RECURSIVE arraySort_reversesTies(_, _, _)
arraySort_reversesTies(arr, key, order) ==
    IF arr = <<>> THEN <<>>
    ELSE LET init == arraySort_reversesTies(SubSeq(arr, 1, Len(arr) - 1), key, order)
             x == arr[Len(arr)]
             after == { i \in 1..Len(init) : SortCompare(key, order, init[i], x) >= 0 }
             k == IF after = {} THEN Len(init)
                  ELSE (CHOOSE i \in after : \A j \in after : i <= j) - 1
         IN SubSeq(init, 1, k) \o <<x>> \o SubSeq(init, k + 1, Len(init))

\* [...arr].sort(comparator): Array.prototype.sort is stable, so each element
\* goes behind the elements that do not compare greater than it
RECURSIVE arraySort(_, _, _)
arraySort(arr, key, order) ==
    IF arr = <<>> THEN <<>>
    ELSE LET init == arraySort(SubSeq(arr, 1, Len(arr) - 1), key, order)
             x == arr[Len(arr)]
             after == { i \in 1..Len(init) : SortCompare(key, order, init[i], x) > 0 }
             k == IF after = {} THEN Len(init)
                  ELSE (CHOOSE i \in after : \A j \in after : i <= j) - 1
         IN SubSeq(init, 1, k) \o <<x>> \o SubSeq(init, k + 1, Len(init))

\* the function `sort` inside the sortedTasks memo
RECURSIVE sort(_, _, _)
sort(tasksToSort, key, order) ==
    LET sorted == arraySort(tasksToSort, key, order)
    IN [i \in 1..Len(sorted) |->
           [sorted[i] EXCEPT !.children = sort(sorted[i].children, key, order)]]

\* the memo sortedTasks: what TaskTree is given
sortedTasks == sort(tasks, sortKey, sortOrder)

SortKeys == {"dueDate", "priority", "createdAt"}
SortOrders == {"asc", "desc"}

----------------------------------------------------------------------------
(* App.tsx: the analysis of the daily report *)

\* isCompletedTask that lists only what was completed at `date` or later
isCompletedTask_noWindow(t, date) ==
    t.done /\ Defined(t.completedAt) /\ t.completedAt[1] >= date

\* the filter of completedTasks, `date` being the `now` of the handler
isCompletedTask(t, date) ==
    LET twentyFourHoursAgo == date - Day
    IN t.done /\ Defined(t.completedAt) /\ t.completedAt[1] > twentyFourHoursAgo

\* isProblemTask that counts a task due at the end of the three days as well
isProblemTask_inclusive(t, date) ==
    LET threeDaysFromNow == date + 3 * Day
    IN ~t.done /\ Defined(t.due)
       /\ (getTime(t.due[1]) < date \/ getTime(t.due[1]) <= threeDaysFromNow)

\* isProblemTask that lists overdue tasks only
isProblemTask_overdueOnly(t, date) ==
    ~t.done /\ Defined(t.due) /\ getTime(t.due[1]) < date

\* the filter of problemTasks, `date` being the `now` of the handler
isProblemTask(t, date) ==
    LET threeDaysFromNow == date + 3 * Day
    IN ~t.done /\ Defined(t.due)
       /\ (getTime(t.due[1]) < date \/ getTime(t.due[1]) < threeDaysFromNow)

\* { completedTasks, problemTasks } as handleOpenReportModal computes it
analysis(ts, date) ==
    LET allTasks == flattenTasks(ts)
        completed(t) == isCompletedTask(t, date)
        problem(t) == isProblemTask(t, date)
    IN [completedTasks |-> SelectSeq(allTasks, completed),
        problemTasks |-> SelectSeq(allTasks, problem)]

----------------------------------------------------------------------------
(* Initial forests *)

\* The fields seed() gives its nodes, by id; due dates count the days and times
\* the clock ticks from the `now` of construction, which is 0.
SeedFields ==
    1 :> [text |-> "thesis", priority |-> Undefined, due |-> Undefined,
          note |-> Undefined, done |-> FALSE, completedAt |-> Undefined]
 @@ 2 :> [text |-> "survey", priority |-> Some("high"), due |-> Some(3),
          note |-> Undefined, done |-> FALSE, completedAt |-> Undefined]
 @@ 3 :> [text |-> "paper A", priority |-> Some("medium"), due |-> Some(-2),
          note |-> Undefined, done |-> TRUE, completedAt |-> Some(-Day)]
 @@ 4 :> [text |-> "english", priority |-> Undefined, due |-> Undefined,
          note |-> Some("memo"), done |-> FALSE, completedAt |-> Undefined]

\* Nodes with further ids repeat the four kinds of node of seed().
FieldsOf(id) == SeedFields[((id - 1) % 4) + 1]

\* seed() stamps its nodes one day apart, the last one a day before `now`
createdAtOf(id) == (id - (MaxNodes + 1)) * Day

NodeOf(id, children) ==
    LET f == FieldsOf(id)
    IN Task(id, f.text, f.priority, f.due, f.note, createdAtOf(id), f.done,
            f.completedAt, children)

\* seed(), cut down to its first root, first child and first (completed) leaf
seed == << NodeOf(1, << NodeOf(2, << NodeOf(3, <<>>) >>) >>) >>

\* every ordered forest whose nodes carry exactly the ids of S
RECURSIVE ForestsOn(_)
ForestsOn(S) ==
    IF S = {} THEN { <<>> }
    ELSE UNION { UNION { { <<NodeOf(r, cf)>> \o rf :
                              cf \in ForestsOn(C), rf \in ForestsOn((S \ {r}) \ C) } :
                          C \in SUBSET (S \ {r}) } :
                 r \in S }

AllForests == UNION { ForestsOn(S) : S \in SUBSET (1..MaxNodes) }

\* The sort keys a node to be sorted can carry: no priority and no due date, or
\* both; two nodes of one kind tie in every key.
SortProfiles ==
    { [priority |-> Undefined, due |-> Undefined, createdAt |-> -1],
      [priority |-> Some("high"), due |-> Some(2), createdAt |-> -1],
      [priority |-> Some("low"), due |-> Some(0), createdAt |-> 0] }

SortNode(id, p, children) ==
    Task(id, "task", p.priority, p.due, Undefined, p.createdAt, FALSE, Undefined, children)

\* Forests for sorting: up to MaxNodes nodes, as a list of roots or as one root
\* with a list of children, the nodes' keys drawn from SortProfiles.
SortForests ==
    LET lists == UNION { [1..k -> SortProfiles] : k \in 0..MaxNodes }
        flat(ps) == [i \in 1..Len(ps) |-> SortNode(i, ps[i], <<>>)]
        nested(ps) == << SortNode(1, ps[1],
                             [i \in 1..(Len(ps) - 1) |-> SortNode(i + 1, ps[i + 1], <<>>)]) >>
    IN { flat(ps) : ps \in lists } \cup { nested(ps) : ps \in lists \ { <<>> } }

----------------------------------------------------------------------------
(* What create() can be given: InputPanel.tsx *)

CreateInputs ==
    { [text |-> "quick", priority |-> Undefined, due |-> Undefined, note |-> Undefined],
      [text |-> "form", priority |-> Some("low"), due |-> Some(0), note |-> Some("n")] }

----------------------------------------------------------------------------
(* State machine *)

\* the record of a command; `input` is what create() was given, or the text the
\* generation service answered with
Cmd(op, p, d) ==
    [op |-> op, parentId |-> p, id |-> d, prev |-> tasks, input |-> Undefined]

\* useState(...) of everything but tasks and mode
InitState ==
    /\ filter = "all"
    /\ sortKey = "createdAt"
    /\ sortOrder = "desc"
    /\ isReportModalOpen = FALSE
    /\ reportAnalysis = Null
    /\ isGenerating = FALSE
    /\ generatedReport = Null
    /\ requests = <<>>
    /\ generatedFor = Null
    /\ now = 0
    /\ last = [op |-> "init", parentId |-> NoData, id |-> NoData, prev |-> <<>>,
               input |-> Undefined]

InitCommon == mode = "input" /\ InitState

\* the App as constructed: useState(seed())
Init ==
    /\ InitCommon
    /\ tasks = seed
    /\ nextId = countTasks(seed, always) + 1
    /\ budget = MaxCmds

\* the App in an arbitrary forest with unique ids, to which one command is applied
InitForests ==
    /\ InitCommon
    /\ tasks \in AllForests
    /\ nextId = MaxNodes + 1
    /\ budget = 1

\* the App as constructed, the tab of the structure view chosen
InitReport ==
    /\ mode = "structure"
    /\ InitState
    /\ tasks = seed
    /\ nextId = countTasks(seed, always) + 1
    /\ budget = MaxCmds

\* the App in a forest whose siblings tie and differ in their sort keys
InitSort ==
    /\ InitCommon
    /\ tasks \in SortForests
    /\ nextId = MaxNodes + 1
    /\ budget = 1

Spend == budget > 0 /\ budget' = budget - 1

\* new Date() returns `date`: the clock never runs backwards
newDate(date) == date \in now..MaxTime /\ now' = date

\* createOf that puts the new node in front of the roots
createOf_prepends(prev, id, p, date) ==
    <<Task(id, p.text, p.priority, p.due, p.note, date, FALSE, Undefined, <<>>)>> \o prev

\* the updater App.create hands to setTasks; `id` is what the id generator
\* returns and `date` what new Date() returns
createOf(prev, id, p, date) ==
    Append(prev, Task(id, p.text, p.priority, p.due, p.note, date, FALSE, Undefined, <<>>))

\* App.create; crypto.randomUUID() returns an id no node has
create(p, date) ==
    /\ Spend
    /\ nextId \in Ids
    /\ newDate(date)
    /\ tasks' = createOf(tasks, nextId, p, date)
    /\ mode' = "structure"
    /\ nextId' = nextId + 1
    /\ last' = [Cmd("create", NoData, nextId) EXCEPT !.input = Some(p)]
    /\ UNCHANGED <<filter, sortVars, reportVars>>

\* toggleDone that also recomputes the analysis of the report
toggleDone_refreshesAnalysis(id, date) ==
    LET f == [fn |-> "doneToggled", id |-> id, date |-> date]
    IN /\ Spend
       /\ newDate(date)
       /\ tasks' = mapTasks(tasks, f)
       /\ reportAnalysis' = IF Defined(reportAnalysis)
                            THEN Some(analysis(tasks', date)) ELSE Null
       /\ last' = Cmd("toggleDone", NoData, id)
       /\ UNCHANGED <<mode, filter, sortVars, isReportModalOpen, isGenerating,
                      generatedReport, requests, generatedFor, nextId>>

\* App.toggleDone
toggleDone(id, date) ==
    LET f == [fn |-> "doneToggled", id |-> id, date |-> date]
    IN /\ Spend
       /\ newDate(date)
       /\ tasks' = mapTasks(tasks, f)
       /\ last' = Cmd("toggleDone", NoData, id)
       /\ UNCHANGED <<mode, filter, sortVars, reportVars, nextId>>

\* App.toggleCollapse
toggleCollapse(id) ==
    LET f == [fn |-> "collapseToggled", id |-> id]
    IN /\ Spend
       /\ tasks' = mapTasks(tasks, f)
       /\ last' = Cmd("toggleCollapse", NoData, id)
       /\ UNCHANGED <<mode, filter, sortVars, reportVars, nextId, now>>

\* App.removeTask
removeTask(id) ==
    /\ Spend
    /\ tasks' = removeById(tasks, id).rest
    /\ last' = Cmd("removeTask", NoData, id)
    /\ UNCHANGED <<mode, filter, sortVars, reportVars, nextId, now>>

\* dropAsChildOf that leaves a node that is a child of parentId where it is
dropAsChildOf_keepsOwnChild(prev, parentId, draggedId) ==
    LET parent == findById(prev, parentId)
    IN IF isDescendant(prev, draggedId, parentId) THEN prev
       ELSE IF parent # Null
               /\ \E i \in 1..Len(parent[1].children) :
                      parent[1].children[i].id = draggedId
            THEN prev
       ELSE LET r == removeById(prev, draggedId)
            IN IF r.removed = Null THEN prev
               ELSE insertChild(r.rest, parentId, r.removed[1])

\* the updater App.dropAsChild hands to setTasks
dropAsChildOf(prev, parentId, draggedId) ==
    IF isDescendant(prev, draggedId, parentId) THEN prev
    ELSE LET r == removeById(prev, draggedId)
         IN IF r.removed = Null THEN prev
            ELSE insertChild(r.rest, parentId, r.removed[1])

\* dropToRootOf that appends to the forest it started from
dropToRootOf_keepsOriginal(prev, draggedId) ==
    LET r == removeById(prev, draggedId)
    IN IF r.removed = Null THEN prev
       ELSE Append(prev, r.removed[1])

\* dropToRootOf that puts the node in front of the roots
dropToRootOf_prepends(prev, draggedId) ==
    LET r == removeById(prev, draggedId)
    IN IF r.removed = Null THEN prev
       ELSE <<r.removed[1]>> \o r.rest

\* the updater App.dropToRoot hands to setTasks
dropToRootOf(prev, draggedId) ==
    LET r == removeById(prev, draggedId)
    IN IF r.removed = Null THEN prev
       ELSE Append(r.rest, r.removed[1])

\* App.dropAsChild
dropAsChild(parentId, draggedId) ==
    /\ Spend
    /\ tasks' = dropAsChildOf(tasks, parentId, draggedId)
    /\ last' = Cmd("dropAsChild", parentId, draggedId)
    /\ UNCHANGED <<mode, filter, sortVars, reportVars, nextId, now>>

\* App.dropToRoot
dropToRoot(draggedId) ==
    /\ Spend
    /\ tasks' = dropToRootOf(tasks, draggedId)
    /\ last' = Cmd("dropToRoot", NoData, draggedId)
    /\ UNCHANGED <<mode, filter, sortVars, reportVars, nextId, now>>

\* a Node component for task `id` is mounted
Rendered(id) == mode = "structure" /\ id \in renderedIds(filtered(tasks, filter))

\* onDropPasses without the test for a drop of a node on itself
onDropPasses_noSelfTest(taskId, draggedId) == ~(draggedId = NoData)

\* the guard of Node.onDrop: does the drop reach onDropAsChild?
onDropPasses(taskId, draggedId) == ~(draggedId = NoData \/ draggedId = taskId)

\* TaskTree Node.onDrop on the node of task `taskId`, the drag carrying `draggedId`
onDrop(taskId, draggedId) ==
    /\ Rendered(taskId)
    /\ Spend
    /\ tasks' = IF onDropPasses(taskId, draggedId)
                THEN dropAsChildOf(tasks, taskId, draggedId)
                ELSE tasks
    /\ last' = Cmd("onDrop", taskId, draggedId)
    /\ UNCHANGED <<mode, filter, sortVars, reportVars, nextId, now>>

\* TaskTree handleRootDrop, the drag carrying `draggedId`
handleRootDrop(draggedId) ==
    /\ mode = "structure"
    /\ Spend
    /\ tasks' = IF draggedId # NoData THEN dropToRootOf(tasks, draggedId) ELSE tasks
    /\ last' = Cmd("handleRootDrop", NoData, draggedId)
    /\ UNCHANGED <<mode, filter, sortVars, reportVars, nextId, now>>

\* App.setMode, from the tabs
setMode(m) ==
    /\ mode # m
    /\ mode' = m
    /\ UNCHANGED <<tasks, filter, sortVars, reportVars, nextId, now, budget, last>>

\* App.setFilter, from the filter tabs of the structure view
setFilter(f) ==
    /\ mode = "structure"
    /\ filter # f
    /\ filter' = f
    /\ UNCHANGED <<tasks, mode, sortVars, reportVars, nextId, now, budget, last>>

\* handleSort that also stores the forest in the order of the new view
handleSort_storesView(key) ==
    /\ mode = "structure"
    /\ Spend
    /\ sortKey' = key
    /\ sortOrder' = IF key = sortKey
                    THEN (IF sortOrder = "asc" THEN "desc" ELSE "asc")
                    ELSE "desc"
    /\ tasks' = sort(tasks, sortKey', sortOrder')
    /\ last' = Cmd("handleSort", NoData, NoData)
    /\ UNCHANGED <<mode, filter, reportVars, nextId, now>>

\* SortTags.handleSort(key), then the onSortChange App passes to SortTags:
\* the same key flips the order, another key starts with "desc"
handleSort(key) ==
    /\ mode = "structure"
    /\ Spend
    /\ sortKey' = key
    /\ sortOrder' = IF key = sortKey
                    THEN (IF sortOrder = "asc" THEN "desc" ELSE "asc")
                    ELSE "desc"
    /\ last' = Cmd("handleSort", NoData, NoData)
    /\ UNCHANGED <<tasks, mode, filter, reportVars, nextId, now>>

\* App.handleOpenReportModal, from the button of the structure view
handleOpenReportModal(date) ==
    /\ mode = "structure"
    /\ Spend
    /\ newDate(date)
    /\ reportAnalysis' = Some(analysis(tasks, date))
    /\ generatedReport' = Null
    /\ isGenerating' = FALSE
    /\ isReportModalOpen' = TRUE
    /\ generatedFor' = Null
    /\ last' = Cmd("handleOpenReportModal", NoData, NoData)
    /\ UNCHANGED <<tasks, mode, filter, sortVars, requests, nextId>>

\* App renders DailyReportModal
ModalRendered == isReportModalOpen /\ Defined(reportAnalysis)

\* DailyReportModal shows renderForm(), with the button that calls onGenerate
FormRendered == ModalRendered /\ ~isGenerating /\ generatedReport = Null

\* App.handleCloseReportModal, from the overlay or a close button of the modal
handleCloseReportModal ==
    /\ ModalRendered
    /\ isReportModalOpen' = FALSE
    /\ last' = Cmd("handleCloseReportModal", NoData, NoData)
    /\ UNCHANGED <<tasks, mode, filter, sortVars, reportAnalysis, isGenerating,
                   generatedReport, requests, generatedFor, nextId, now, budget>>

\* App.handleGenerateReport up to `await fetch(...)`: the prompt is built from
\* the reportAnalysis of the render the button belongs to
handleGenerateReport ==
    /\ FormRendered
    /\ Len(requests) < MaxRequests
    /\ isGenerating' = TRUE
    /\ requests' = Append([i \in 1..Len(requests) |-> [requests[i] EXCEPT !.latest = FALSE]],
                          [analysis |-> reportAnalysis[1], latest |-> TRUE])
    /\ last' = Cmd("handleGenerateReport", NoData, NoData)
    /\ UNCHANGED <<tasks, mode, filter, sortVars, isReportModalOpen, reportAnalysis,
                   generatedReport, generatedFor, nextId, now, budget>>

\* the texts the generation service answers with
ReportTexts == {"report A", "report B"}

\* the message of the catch block
ErrorMessage == "error: the report could not be generated"

\* requests without its i-th element
Answered(i) == SubSeq(requests, 1, i - 1) \o SubSeq(requests, i + 1, Len(requests))

\* App.handleGenerateReport from the answer to its end, the i-th waiting call
\* being answered with `text`: setGeneratedReport(reportText), then finally
requestResolves(i, text) ==
    /\ i \in 1..Len(requests)
    /\ generatedReport' = Some(text)
    /\ generatedFor' = Some(requests[i].analysis)
    /\ isGenerating' = FALSE
    /\ requests' = Answered(i)
    /\ last' = [Cmd("requestResolves", NoData, NoData) EXCEPT !.input = Some(text)]
    /\ UNCHANGED <<tasks, mode, filter, sortVars, isReportModalOpen, reportAnalysis,
                   nextId, now, budget>>

\* requestFails that leaves the modal in its loading view
requestFails_keepsGenerating(i) ==
    /\ i \in 1..Len(requests)
    /\ generatedReport' = Some(ErrorMessage)
    /\ generatedFor' = Some(requests[i].analysis)
    /\ requests' = Answered(i)
    /\ last' = Cmd("requestFails", NoData, NoData)
    /\ UNCHANGED <<tasks, mode, filter, sortVars, isReportModalOpen, reportAnalysis,
                   isGenerating, nextId, now, budget>>

\* App.handleGenerateReport from the failure of the i-th waiting call to its
\* end (fetch rejects, the status is not OK, or the answer lacks
\* candidates[0].content.parts[0].text): catch, then finally
requestFails(i) ==
    /\ i \in 1..Len(requests)
    /\ generatedReport' = Some(ErrorMessage)
    /\ generatedFor' = Some(requests[i].analysis)
    /\ isGenerating' = FALSE
    /\ requests' = Answered(i)
    /\ last' = Cmd("requestFails", NoData, NoData)
    /\ UNCHANGED <<tasks, mode, filter, sortVars, isReportModalOpen, reportAnalysis,
                   nextId, now, budget>>

\* the commands other than create
Commands ==
    \/ \E id \in Ids, date \in 0..MaxTime : toggleDone(id, date)
    \/ \E id \in Ids : toggleCollapse(id)
    \/ \E id \in Ids : removeTask(id)
    \/ \E parentId \in Ids, draggedId \in Ids : dropAsChild(parentId, draggedId)
    \/ \E draggedId \in Ids : dropToRoot(draggedId)
    \/ \E taskId \in Ids, draggedId \in DragData : onDrop(taskId, draggedId)
    \/ \E draggedId \in DragData : handleRootDrop(draggedId)
    \/ \E m \in {"input", "structure"} : setMode(m)
    \/ \E f \in {"all", "active", "done"} : setFilter(f)
    \/ \E key \in SortKeys : handleSort(key)
    \/ \E date \in 0..MaxTime : handleOpenReportModal(date)

Next ==
    \/ \E p \in CreateInputs, date \in 0..MaxTime : create(p, date)
    \/ Commands

Spec == Init /\ [][Next]_vars

SpecForests == InitForests /\ [][Next]_vars

SpecSort == InitSort /\ [][Next]_vars

\* The ids create() can be handed by crypto.randomUUID() or by the
\* Date.now()-Math.random() fallback: none of them is an id of seed().
GeneratedIds == { id \in Ids : id > countTasks(seed, always) }

\* App.create when nothing is assumed of the id generator but its format: it
\* may return an id it has returned before
createAnyId(p, id, date) ==
    /\ Spend
    /\ newDate(date)
    /\ tasks' = createOf(tasks, id, p, date)
    /\ mode' = "structure"
    /\ nextId' = IF id >= nextId THEN id + 1 ELSE nextId
    /\ last' = [Cmd("create", NoData, id) EXCEPT !.input = Some(p)]
    /\ UNCHANGED <<filter, sortVars, reportVars>>

NextAnyId ==
    \/ \E p \in CreateInputs, id \in GeneratedIds, date \in 0..MaxTime :
           createAnyId(p, id, date)
    \/ Commands

\* the App from seed(), the id generator unconstrained
SpecAnyId == Init /\ [][NextAnyId]_vars

\* The report flow: the report handlers and the answers of the generation
\* service, with the tree commands of the structure view.
NextReport ==
    \/ \E date \in 0..MaxTime : handleOpenReportModal(date)
    \/ handleCloseReportModal
    \/ handleGenerateReport
    \/ \E i \in 1..MaxRequests, text \in ReportTexts : requestResolves(i, text)
    \/ \E i \in 1..MaxRequests : requestFails(i)
    \/ \E p \in CreateInputs, date \in 0..MaxTime : create(p, date)
    \/ \E id \in Ids, date \in 0..MaxTime : toggleDone(id, date)
    \/ \E id \in Ids : removeTask(id)
    \/ \E parentId \in Ids, draggedId \in Ids : dropAsChild(parentId, draggedId)
    \/ \E draggedId \in Ids : dropToRoot(draggedId)

SpecReport == InitReport /\ [][NextReport]_vars

----------------------------------------------------------------------------
(* The shape of a forest, read off its positions.  A position is the path  *)
(* of child indices from the root sequence down to a node.                 *)

RECURSIVE Paths(_)
Paths(f) ==
    UNION { {<<i>>} \cup { <<i>> \o q : q \in Paths(f[i].children) } : i \in 1..Len(f) }

RECURSIVE At(_, _)
At(f, p) == IF Len(p) = 1 THEN f[p[1]] ELSE At(f[p[1]].children, Tail(p))

PathsOf(f, id) == { p \in Paths(f) : At(f, p).id = id }
IdsIn(f) == { At(f, p).id : p \in Paths(f) }
Size(f) == Cardinality(Paths(f))
UniqueIds(f) == Cardinality(IdsIn(f)) = Size(f)

PathOf(f, id) == CHOOSE p \in PathsOf(f, id) : TRUE
SubtreeOf(f, id) == At(f, PathOf(f, id))
DescIds(f, id) == IdsIn(SubtreeOf(f, id).children)         \* strictly below id
Root == NoData                                             \* stands for "no parent"
ParentId(f, id) ==
    LET p == PathOf(f, id)
    IN IF Len(p) = 1 THEN Root ELSE At(f, SubSeq(p, 1, Len(p) - 1)).id
SiblingsOf(f, q) == IF q = Root THEN f ELSE SubtreeOf(f, q).children
ChildIds(f, q) == [i \in 1..Len(SiblingsOf(f, q)) |-> SiblingsOf(f, q)[i].id]
Without(ids, X) == LET keep(x) == x \notin X IN SelectSeq(ids, keep)
Shallow(t) == [t EXCEPT !.children = <<>>]

\* the last command was `op`, applied to a forest with unique ids
Ran(op) == last.op = op /\ UniqueIds(last.prev)

----------------------------------------------------------------------------
(* C1 *)

\* C1: cycle prevention.  When dropAsChild(parentId = B, draggedId = A) runs on a
\* forest with unique ids in which B lies anywhere in the subtree below A, the
\* forest afterwards equals the forest before.
C1_CyclePrevention ==
    (/\ Ran("dropAsChild")
     /\ last.id \in IdsIn(last.prev)
     /\ last.parentId \in DescIds(last.prev, last.id))
    => tasks = last.prev

\* a drop onto a grandchild (not a direct child) of the dragged node was refused
C1_Witness ==
    /\ Ran("dropAsChild")
    /\ last.id \in IdsIn(last.prev)
    /\ last.parentId \in DescIds(last.prev, last.id)
    /\ ParentId(last.prev, last.parentId) # last.id
    /\ tasks = last.prev

----------------------------------------------------------------------------
(* C2 *)

\* C2: forest invariant.  In every state reached from the seed forest by create,
\* toggleDone, toggleCollapse, removeTask, dropAsChild and dropToRoot commands,
\* every id occurs at exactly one position of the forest; hence every non-root
\* node has exactly one parent and no node lies in its own subtree.
C2_ForestInvariant ==
    /\ \A id \in IdsIn(tasks) : Cardinality(PathsOf(tasks, id)) = 1
    /\ \A id \in IdsIn(tasks) : id \notin DescIds(tasks, id)
    /\ IdsIn(tasks) \subseteq 1..(nextId - 1)

\* a node with a subtree was moved to the root level and the ids stayed unique
C2_Witness ==
    /\ last.op = "dropToRoot"
    /\ tasks # last.prev
    /\ last.id \in IdsIn(tasks)
    /\ DescIds(tasks, last.id) # {}
    /\ C2_ForestInvariant

----------------------------------------------------------------------------
(* C3 *)

\* C3: reparent with a missing target is a no-op.  When dropAsChild runs with a
\* draggedId that exists and a parentId that does not exist, the forest
\* afterwards equals the forest before.
C3_MissingTargetNoOp ==
    (/\ Ran("dropAsChild")
     /\ last.id \in IdsIn(last.prev)
     /\ last.parentId \notin IdsIn(last.prev))
    => tasks = last.prev

----------------------------------------------------------------------------
(* C4 *)

\* C4: self-drop is rejected.  When the drop handler of the node of an existing
\* task X receives a drag that carries X itself, the forest afterwards equals
\* the forest before.
C4_SelfDropRejected ==
    (/\ Ran("onDrop")
     /\ last.id = last.parentId
     /\ last.id \in IdsIn(last.prev))
    => tasks = last.prev

\* a node that has children was dropped on itself and is still in place
C4_Witness ==
    /\ Ran("onDrop")
    /\ last.id = last.parentId
    /\ last.id \in IdsIn(last.prev)
    /\ DescIds(last.prev, last.id) # {}
    /\ tasks = last.prev

----------------------------------------------------------------------------
(* C5 *)

\* the precondition of a successful reparent
C5_Applies ==
    /\ Ran("dropAsChild")
    /\ last.id \in IdsIn(last.prev)
    /\ last.parentId \in IdsIn(last.prev)
    /\ last.id # last.parentId
    /\ last.parentId \notin DescIds(last.prev, last.id)

\* C5: successful reparent.  When dropAsChild runs on a forest with unique ids
\* where draggedId and parentId exist, differ, and parentId is not below
\* draggedId, then afterwards the dragged node, with its subtree unchanged, is
\* the last child of parentId and occurs nowhere else, and every other node has
\* the parent it had and the order it had among its siblings.
C5_SuccessfulReparent ==
    C5_Applies =>
        LET D == last.id
            P == last.parentId
            kids == ChildIds(tasks, P)
        IN /\ IdsIn(tasks) = IdsIn(last.prev)
           /\ Cardinality(PathsOf(tasks, D)) = 1
           /\ SubtreeOf(tasks, D) = SubtreeOf(last.prev, D)
           /\ Len(kids) > 0 /\ kids[Len(kids)] = D
           /\ ParentId(tasks, D) = P
           /\ \A x \in IdsIn(last.prev) \ {D} :
                  ParentId(tasks, x) = ParentId(last.prev, x)
           /\ \A q \in IdsIn(last.prev) \cup {Root} :
                  Without(ChildIds(tasks, q), {D}) = Without(ChildIds(last.prev, q), {D})

\* a node was moved from another parent to the end of the children of a node
\* that already had a child
C5_Witness ==
    /\ C5_Applies
    /\ ParentId(last.prev, last.id) # last.parentId
    /\ Len(ChildIds(last.prev, last.parentId)) > 0
    /\ Len(ChildIds(tasks, last.parentId)) = Len(ChildIds(last.prev, last.parentId)) + 1
    /\ ParentId(tasks, last.id) = last.parentId

----------------------------------------------------------------------------
(* C6 *)

\* C6: not-found is a no-op.  For every id that is absent from the forest,
\* removeById returns removed = null and a rest equal to the forest; and when
\* removeTask, toggleDone, toggleCollapse, dropToRoot or dropAsChild (the id
\* being the dragged node) runs with an id absent from the forest, the forest
\* afterwards equals the forest before.
C6_NotFoundNoOp ==
    /\ \A id \in Ids \ IdsIn(tasks) :
           removeById(tasks, id) = [removed |-> Null, rest |-> tasks]
    /\ (/\ last.op \in {"removeTask", "toggleDone", "toggleCollapse", "dropToRoot",
                         "dropAsChild"}
        /\ last.id \notin IdsIn(last.prev))
       => tasks = last.prev

\* an absent id was removed from a forest with nested nodes, which are all still there
C6_Witness ==
    /\ last.op = "removeTask"
    /\ last.id \notin IdsIn(last.prev)
    /\ \E p \in Paths(last.prev) : Len(p) > 1
    /\ tasks = last.prev

----------------------------------------------------------------------------
(* C7 *)

C7_Applies == Ran("removeTask") /\ last.id \in IdsIn(last.prev)

\* C7: whole-subtree removal.  When removeTask(id) runs on a forest with unique
\* ids that contains id, the forest afterwards contains exactly the nodes that
\* were outside the subtree of id, each with the parent and the order among its
\* siblings it had, and the node count has dropped by the size of that subtree.
C7_WholeSubtreeRemoval ==
    C7_Applies =>
        LET gone == {last.id} \cup DescIds(last.prev, last.id)
        IN /\ IdsIn(tasks) = IdsIn(last.prev) \ gone
           /\ UniqueIds(tasks)
           /\ \A x \in IdsIn(tasks) : ParentId(tasks, x) = ParentId(last.prev, x)
           /\ \A q \in IdsIn(tasks) \cup {Root} :
                  ChildIds(tasks, q) = Without(ChildIds(last.prev, q), gone)
           /\ Size(tasks) = Size(last.prev) - Cardinality(gone)
           /\ countTasks(tasks, always) = countTasks(last.prev, always) - Cardinality(gone)

\* a node that had a child and a parent was removed; its parent is still there
C7_Witness ==
    /\ C7_Applies
    /\ DescIds(last.prev, last.id) # {}
    /\ ParentId(last.prev, last.id) # Root
    /\ ParentId(last.prev, last.id) \in IdsIn(tasks)
    /\ last.id \notin IdsIn(tasks)

----------------------------------------------------------------------------
(* C8 *)

\* removeById of N followed by insertChild under P
roundTrip(f, P, N) ==
    LET r == removeById(f, N)
    IN insertChild(r.rest, P, r.removed[1])

\* dropAsChild(P, N) ran on a forest with unique ids in which P is the parent of N:
\* the command is then removeById followed by insertChild under the old parent
C8_Applies ==
    /\ Ran("dropAsChild")
    /\ last.id \in IdsIn(last.prev)
    /\ last.parentId # Root
    /\ ParentId(last.prev, last.id) = last.parentId

\* C8 as stated: for every non-root node N with parent P, removeById of N
\* followed by insertChild under P yields the original forest.
C8_RoundTripAnyChild ==
    C8_Applies =>
        /\ roundTrip(last.prev, last.parentId, last.id) = last.prev
        /\ tasks = last.prev

\* C8, amended: for every non-root node N that is the last child of its parent P,
\* removeById of N followed by insertChild under P yields the original forest.
C8_RoundTripLastChild ==
    (/\ C8_Applies
     /\ LET kids == ChildIds(last.prev, last.parentId)
        IN kids[Len(kids)] = last.id)
    => /\ roundTrip(last.prev, last.parentId, last.id) = last.prev
       /\ tasks = last.prev

\* the last of several children was removed and reinserted under its parent
C8_Witness ==
    /\ C8_Applies
    /\ LET kids == ChildIds(last.prev, last.parentId)
       IN Len(kids) > 1 /\ kids[Len(kids)] = last.id
    /\ roundTrip(last.prev, last.parentId, last.id) = last.prev
    /\ tasks = last.prev

----------------------------------------------------------------------------
(* C9 *)

\* the ids of the nodes of f that satisfy pred themselves or through a descendant
KeptIds(f, pred) ==
    { id \in IdsIn(f) :
        \/ callPred(pred, SubtreeOf(f, id))
        \/ \E d \in DescIds(f, id) : callPred(pred, SubtreeOf(f, d)) }

\* every node of f below `parent`, with its parent and its own fields
RECURSIVE Entries(_, _)
Entries(f, parent) ==
    UNION { { [id |-> f[i].id, parent |-> parent, fields |-> Shallow(f[i])] }
            \cup Entries(f[i].children, f[i].id) : i \in 1..Len(f) }

\* every sibling sequence of f below `parent`, as the sequence of its ids that
\* are in K, for the parents in K; the root sequence has parent Root
RECURSIVE Orders(_, _, _)
Orders(f, parent, K) ==
    LET keep(x) == x \in K
    IN { <<parent, SelectSeq([i \in 1..Len(f) |-> f[i].id], keep)>> }
       \cup UNION { Orders(f[i].children, f[i].id, K) :
                     i \in { j \in 1..Len(f) : f[j].id \in K } }

\* r is f with exactly the nodes outside K deleted: the same nodes with the same
\* fields and parent, once each, and every sibling sequence in the same order
IsRestriction(r, f, K) ==
    /\ Entries(r, Root) = { e \in Entries(f, Root) : e.id \in K }
    /\ Size(r) = Cardinality(K)
    /\ Orders(r, Root, K) = Orders(f, Root, K)

\* C9: filter result.  For every initial forest and every predicate (given as
\* the set of ids it accepts), and for the forest of every state and the two
\* predicates of the filter tabs, filterTasks returns the forest with exactly
\* those nodes deleted that neither satisfy the predicate nor have a descendant
\* satisfying it; kept nodes keep their fields, their parent and their order
\* among kept siblings.
C9_FilterResult ==
    /\ last.op = "init" =>
           \A S \in SUBSET Ids :
               IsRestriction(filterTasks(tasks, idIn(S)), tasks, KeptIds(tasks, idIn(S)))
    /\ IsRestriction(filtered(tasks, "active"), tasks, KeptIds(tasks, isActive))
    /\ IsRestriction(filtered(tasks, "done"), tasks, KeptIds(tasks, isDone))
    /\ filtered(tasks, "all") = tasks

\* the "done" filter is on; it keeps an unfinished node two levels above a
\* finished one and deletes another node
C9_Witness ==
    /\ filter = "done"
    /\ \E x \in IdsIn(filtered(tasks, filter)) :
           /\ ~SubtreeOf(tasks, x).done
           /\ \E d \in DescIds(tasks, x) :
                  SubtreeOf(tasks, d).done /\ ParentId(tasks, d) # x
    /\ IdsIn(tasks) \ IdsIn(filtered(tasks, filter)) # {}

----------------------------------------------------------------------------
(* C10 *)

\* C10: completion invariant.  In every state reached from the seed forest,
\* every node has completedAt defined if and only if its done flag is true.
C10_CompletionInvariant ==
    \A p \in Paths(tasks) : Defined(At(tasks, p).completedAt) <=> At(tasks, p).done

\* a finished node was toggled back to unfinished and lost its completedAt
C10_Witness ==
    /\ last.op = "toggleDone"
    /\ last.id \in IdsIn(tasks)
    /\ SubtreeOf(last.prev, last.id).done
    /\ ~SubtreeOf(tasks, last.id).done
    /\ SubtreeOf(tasks, last.id).completedAt = Undefined

----------------------------------------------------------------------------
(* C11 *)

\* one toggleDone of an existing node: an unfinished node becomes done and is
\* stamped with the clock value of the toggle, a done node becomes unfinished
\* and loses its stamp
C11_Toggled ==
    (Ran("toggleDone") /\ last.id \in IdsIn(last.prev)) =>
        LET before == SubtreeOf(last.prev, last.id)
            after == SubtreeOf(tasks, last.id)
        IN IF before.done
           THEN ~after.done /\ after.completedAt = Undefined
           ELSE after.done /\ after.completedAt = Some(now)

\* a toggleDone step that follows a toggleDone of the same node: done is what it
\* was before the first one, and completedAt is undefined if the node was not
\* done then
C11_ToggledTwice ==
    (/\ Ran("toggleDone") /\ last.id \in IdsIn(last.prev)
     /\ budget' = budget - 1
     /\ last'.op = "toggleDone" /\ last'.id = last.id)
    => LET start == SubtreeOf(last.prev, last.id)
           end == SubtreeOf(tasks', last.id)
       IN /\ end.done = start.done
          /\ ~start.done => end.completedAt = Undefined

\* C11: toggle semantics.  toggleDone on a node with done = false sets done = true
\* and completedAt to the clock value of the toggle; on a node with done = true
\* it sets done = false and completedAt to undefined; two consecutive toggles of
\* one node restore done and, if the node started not done, leave completedAt
\* undefined.
C11_ToggleSemantics == [](C11_Toggled) /\ [][C11_ToggledTwice]_vars

\* a node that a first toggle completed and stamped was toggled again and is
\* unfinished and unstamped
C11_Witness ==
    /\ Ran("toggleDone") /\ last.id \in IdsIn(last.prev)
    /\ SubtreeOf(last.prev, last.id).done
    /\ SubtreeOf(last.prev, last.id).completedAt \in { Some(d) : d \in 0..MaxTime }
    /\ ~SubtreeOf(tasks, last.id).done
    /\ SubtreeOf(tasks, last.id).completedAt = Undefined

----------------------------------------------------------------------------
(* C12 *)

\* C12: count conservation.  countTasks of the forest is the same before and
\* after toggleDone, toggleCollapse, a successful dropAsChild and dropToRoot, and
\* the same for the stored forest and its sorted view under every sort key and
\* order.
C12_CountConservation ==
    /\ (\/ Ran("toggleDone") \/ Ran("toggleCollapse") \/ Ran("dropToRoot")
        \/ C5_Applies)
       => countTasks(tasks, always) = countTasks(last.prev, always)
    /\ \A key \in SortKeys, order \in SortOrders :
           countTasks(sort(tasks, key, order), always) = countTasks(tasks, always)

\* a node with a child was folded, the forest kept its MaxNodes nodes, and a
\* sorted view of it orders the nodes differently
C12_Witness ==
    /\ Ran("toggleCollapse")
    /\ last.id \in IdsIn(last.prev)
    /\ DescIds(last.prev, last.id) # {}
    /\ tasks # last.prev
    /\ countTasks(tasks, always) = MaxNodes
    /\ \E key \in SortKeys, order \in SortOrders : sort(tasks, key, order) # tasks

----------------------------------------------------------------------------
(* C13 *)

\* dropToRoot ran with the id of a node of the forest
C13_Applies == Ran("dropToRoot") /\ last.id \in IdsIn(last.prev)

\* C13: move to root.  After dropToRoot(id) with the id of an existing node, that
\* node is the last root, its subtree is what it was, it occurs nowhere else,
\* and every other node has the parent and the order among its siblings it had;
\* this holds also when the node was a root already.
C13_MoveToRoot ==
    C13_Applies =>
        LET D == last.id
        IN /\ IdsIn(tasks) = IdsIn(last.prev)
           /\ Cardinality(PathsOf(tasks, D)) = 1
           /\ Len(tasks) > 0 /\ tasks[Len(tasks)] = SubtreeOf(last.prev, D)
           /\ \A x \in IdsIn(last.prev) \ {D} :
                  /\ ParentId(tasks, x) = ParentId(last.prev, x)
                  /\ Shallow(SubtreeOf(tasks, x)) = Shallow(SubtreeOf(last.prev, x))
           /\ \A q \in IdsIn(last.prev) \cup {Root} :
                  Without(ChildIds(tasks, q), {D}) = Without(ChildIds(last.prev, q), {D})

\* a root that has a child and was not the last root went behind the other roots
C13_Witness ==
    /\ C13_Applies
    /\ ParentId(last.prev, last.id) = Root
    /\ DescIds(last.prev, last.id) # {}
    /\ tasks # last.prev

----------------------------------------------------------------------------
(* C14 *)

\* C14: create appends.  After create the roots are the roots there were,
\* unchanged, followed by exactly one new root that carries the given text,
\* priority, due date and note, is not done, has no children and no completedAt;
\* no node that existed is changed.
C14_CreateAppends ==
    Ran("create") =>
        LET n == tasks[Len(tasks)]
            p == last.input[1]
        IN /\ Len(tasks) = Len(last.prev) + 1
           /\ SubSeq(tasks, 1, Len(last.prev)) = last.prev
           /\ n.text = p.text /\ n.priority = p.priority
           /\ n.due = p.due /\ n.note = p.note
           /\ n.done = FALSE /\ n.children = <<>> /\ n.completedAt = Undefined

\* the form created a node with a priority, a due date and a note in a forest
\* that has a root with descendants
C14_Witness ==
    /\ Ran("create")
    /\ \E i \in 1..Len(last.prev) : Len(last.prev[i].children) > 0
    /\ Defined(last.input[1].priority)
    /\ Defined(last.input[1].due)
    /\ Defined(last.input[1].note)
    /\ tasks[Len(tasks)].id = last.id

----------------------------------------------------------------------------
(* C15 *)

\* C15: duplicate id on create.  When create is handed an id that a node of the
\* forest already has, it fails with a duplicate-id error and the forest
\* afterwards equals the forest before.
C15_DuplicateIdRejected ==
    (last.op = "create" /\ last.id \in IdsIn(last.prev)) => tasks = last.prev

----------------------------------------------------------------------------
(* C16 *)

\* C16: sort idempotence.  For every forest, every sort key and every order,
\* sorting the sorted forest again with the same key and order gives the sorted
\* forest itself, also when siblings have equal keys or no due date.
C16_SortIdempotent ==
    \A key \in SortKeys, order \in SortOrders :
        sort(sort(tasks, key, order), key, order) = sort(tasks, key, order)

\* three roots, two of them without a due date and in one order by every key,
\* that the sort by due date rearranges
C16_Witness ==
    /\ Len(tasks) = 3
    /\ \E i, j \in 1..3 :
           /\ i < j
           /\ tasks[i].due = Undefined /\ tasks[j].due = Undefined
           /\ tasks[i].priority = tasks[j].priority
           /\ tasks[i].createdAt = tasks[j].createdAt
    /\ sort(tasks, "dueDate", "asc") # tasks
    /\ sort(sort(tasks, "dueDate", "asc"), "dueDate", "asc") = sort(tasks, "dueDate", "asc")

----------------------------------------------------------------------------
(* Sorted views, read sibling list by sibling list *)

\* the sibling lists of a forest: its roots and the children of each node
SiblingLists(f) == {f} \cup { At(f, p).children : p \in Paths(f) }

\* the numeric value of a node's sort key
KeyValue(t, key) == IF key = "priority" THEN priorityRank(t) ELSE t.createdAt

NonDecreasing(l, key) ==
    \A i, j \in 1..Len(l) : i < j => KeyValue(l[i], key) <= KeyValue(l[j], key)

NonIncreasing(l, key) ==
    \A i, j \in 1..Len(l) : i < j => KeyValue(l[i], key) >= KeyValue(l[j], key)

----------------------------------------------------------------------------
(* C17 *)

\* C17: sort direction.  For the keys priority (high = 3, medium = 2, low = 1,
\* absent = 0) and createdAt, the forest sorted with order asc has every sibling
\* list in non-decreasing order of the key's value, and the forest sorted with
\* order desc has every sibling list in non-increasing order.
C17_SortDirection ==
    \A key \in {"priority", "createdAt"} :
        /\ \A l \in SiblingLists(sort(tasks, key, "asc")) : NonDecreasing(l, key)
        /\ \A l \in SiblingLists(sort(tasks, key, "desc")) : NonIncreasing(l, key)

----------------------------------------------------------------------------
(* C18 *)

\* C18: due-date sort.  In the forest sorted with key dueDate and order asc, in
\* every sibling list the nodes that have a due date come in non-decreasing
\* order of it, every node without a due date comes after all nodes that have
\* one, and the nodes without a due date are in the order they had in the
\* input.
C18_DueDateSort ==
    LET view == sort(tasks, "dueDate", "asc")
        noDue(l) == LET lacks(t) == ~Defined(t.due) IN SelectSeq(l, lacks)
        idsOf(l) == [i \in 1..Len(l) |-> l[i].id]
    IN UniqueIds(tasks) =>
        \A q \in IdsIn(tasks) \cup {Root} :
            LET in == SiblingsOf(tasks, q)
                out == SiblingsOf(view, q)
            IN /\ \A i, j \in 1..Len(out) :
                      (i < j /\ Defined(out[i].due) /\ Defined(out[j].due))
                      => out[i].due[1] <= out[j].due[1]
               /\ \A i, j \in 1..Len(out) :
                      (i < j /\ Defined(out[j].due)) => Defined(out[i].due)
               /\ idsOf(noDue(out)) = idsOf(noDue(in))

\* a node with a due date stood between two nodes without one; in the sorted
\* view it is the first of the three
C18_Witness ==
    /\ \E l \in SiblingLists(tasks) :
           /\ Len(l) = 3
           /\ ~Defined(l[1].due) /\ Defined(l[2].due) /\ ~Defined(l[3].due)
    /\ Len(tasks) = 3
    /\ LET view == sort(tasks, "dueDate", "asc")
       IN <<view[1].id, view[2].id, view[3].id>>
              = <<tasks[2].id, tasks[1].id, tasks[3].id>>

----------------------------------------------------------------------------
(* C19 *)

\* C19: sorting stays within parents and does not touch the store.  For every
\* sort key and order the sorted view has the roots of the stored forest and,
\* for every node, the children the node has in the stored forest, only in
\* another order, and every node with the fields it has in the store; a change
\* of the sort key or order leaves the stored forest as it was.
C19_SortFrame ==
    /\ UniqueIds(tasks) =>
           \A key \in SortKeys, order \in SortOrders :
               LET view == sort(tasks, key, order)
               IN /\ UniqueIds(view)
                  /\ IdsIn(view) = IdsIn(tasks)
                  /\ \A id \in IdsIn(tasks) :
                         /\ ParentId(view, id) = ParentId(tasks, id)
                         /\ Shallow(SubtreeOf(view, id)) = Shallow(SubtreeOf(tasks, id))
    /\ Ran("handleSort") => tasks = last.prev

\* the sort order was changed on a forest whose view now orders the children
\* of a node differently from the store, and the store is what it was
C19_Witness ==
    /\ Ran("handleSort")
    /\ tasks = last.prev
    /\ Len(tasks) = 1
    /\ Len(tasks[1].children) > 1
    /\ sortedTasks # tasks
    /\ sortedTasks # sort(last.prev, "createdAt", "desc")

----------------------------------------------------------------------------
(* C20 *)

\* the nodes of the forest f that are not done and due exactly at time t
DueExactlyAt(f, t) ==
    { p \in Paths(f) :
        ~At(f, p).done /\ Defined(At(f, p).due) /\ getTime(At(f, p).due[1]) = t }

\* C20: at-risk boundary.  When the report is opened at time now, every node
\* with done = false whose due date is exactly now is in problemTasks.
C20_AtRiskBoundary ==
    last.op = "handleOpenReportModal" =>
        /\ Defined(reportAnalysis)
        /\ \A p \in DueExactlyAt(tasks, now) :
               \E i \in 1..Len(reportAnalysis[1].problemTasks) :
                   reportAnalysis[1].problemTasks[i] = At(tasks, p)

\* the report was opened at the very time an unfinished node is due, and the
\* node is listed
C20_Witness ==
    /\ last.op = "handleOpenReportModal"
    /\ isReportModalOpen
    /\ DueExactlyAt(tasks, now) # {}
    /\ \A p \in DueExactlyAt(tasks, now) :
           \E i \in 1..Len(reportAnalysis[1].problemTasks) :
               reportAnalysis[1].problemTasks[i].id = At(tasks, p).id

----------------------------------------------------------------------------
(* C21 *)

\* the elements of a sequence
Range(l) == { l[i] : i \in 1..Len(l) }

\* the nodes of f, at any depth
NodesOf(f) == { At(f, p) : p \in Paths(f) }

\* C21: recently-completed classification.  When the report is opened at time
\* now, completedTasks holds exactly the nodes of the forest, at any depth, with
\* done = true and a completedAt later than now minus 24 hours; so a node that
\* was toggled done at time t and is still in the forest and done is listed by
\* every report opened at a time in [t, t + 24h).
C21_RecentlyCompleted ==
    last.op = "handleOpenReportModal" =>
        LET completedTasks == reportAnalysis[1].completedTasks
        IN /\ Range(completedTasks)
                = { t \in NodesOf(tasks) :
                      t.done /\ Defined(t.completedAt) /\ t.completedAt[1] > now - Day }
           /\ Len(completedTasks) = Cardinality(Range(completedTasks))
           /\ \A t \in NodesOf(tasks) :
                  (/\ t.done /\ Defined(t.completedAt)
                   /\ t.completedAt[1] <= now /\ now < t.completedAt[1] + Day)
                  => t \in Range(completedTasks)

\* a report opened half a day after a node below the root level was toggled
\* done lists that node, and does not list a node completed a day or more ago
C21_Witness ==
    /\ last.op = "handleOpenReportModal"
    /\ \E t \in Range(reportAnalysis[1].completedTasks) :
           /\ t.completedAt[1] < now
           /\ ParentId(tasks, t.id) # Root
    /\ \E t \in NodesOf(tasks) :
           /\ t.done /\ t.completedAt[1] <= now - Day
           /\ t \notin Range(reportAnalysis[1].completedTasks)

----------------------------------------------------------------------------
(* C22 *)

\* C22: isDescendant(forest, ancestorId, candidateId) is true if and only if a
\* node with ancestorId exists in the forest and a node with candidateId lies
\* strictly below it, at any depth; it is false when ancestorId is absent and
\* false when candidateId equals ancestorId.
C22_IsDescendantIff ==
    UniqueIds(tasks) =>
        \A ancestorId \in Ids, candidateId \in Ids :
            /\ isDescendant(tasks, ancestorId, candidateId)
                   <=> (/\ ancestorId \in IdsIn(tasks)
                        /\ candidateId \in DescIds(tasks, ancestorId))
            /\ ancestorId \notin IdsIn(tasks)
                   => ~isDescendant(tasks, ancestorId, candidateId)
            /\ candidateId = ancestorId
                   => ~isDescendant(tasks, ancestorId, candidateId)

\* a forest with a grandchild: isDescendant holds from the grandparent down, not
\* from the grandchild up and not from a node to itself
C22_Witness ==
    /\ UniqueIds(tasks)
    /\ \E a \in IdsIn(tasks) : \E c \in DescIds(tasks, a) :
           /\ ParentId(tasks, c) # a
           /\ isDescendant(tasks, a, c)
           /\ ~isDescendant(tasks, c, a)
           /\ ~isDescendant(tasks, a, a)
    /\ \E z \in Ids : z \notin IdsIn(tasks)

----------------------------------------------------------------------------
(* C23 *)

----------------------------------------------------------------------------
(* C24 *)

TreeOps == {"create", "toggleDone", "removeTask", "dropAsChild", "dropToRoot"}

ReportOps == {"handleOpenReportModal", "handleGenerateReport",
              "handleCloseReportModal", "requestResolves", "requestFails"}

\* a step of a tree command leaves reportAnalysis as it is; a step of the
\* report flow leaves the forest as it is
C24_Step ==
    /\ last'.op \in TreeOps => reportAnalysis' = reportAnalysis
    /\ last'.op \in ReportOps => tasks' = tasks

\* C24: report snapshot.  The analysis computed by handleOpenReportModal is fixed
\* at open time: create, toggleDone, removeTask, dropAsChild and dropToRoot,
\* executed afterwards in any sequence, also while a generation request is
\* outstanding, leave reportAnalysis unchanged; opening, generating and closing
\* the report, and the completion of a request, never change the forest.
C24_ReportSnapshot == [][C24_Step]_vars

\* a node was toggled while a generation request was outstanding: the analysis
\* held is no longer what an analysis of the forest would give
C24_Witness ==
    /\ last.op = "toggleDone"
    /\ tasks # last.prev
    /\ requests # <<>>
    /\ Defined(reportAnalysis)
    /\ reportAnalysis[1] = requests[1].analysis
    /\ reportAnalysis[1] # analysis(tasks, now)

----------------------------------------------------------------------------
(* C25 *)

\* the fields of a node that are fixed at its creation
Fixed(t) == [id |-> t.id, text |-> t.text, priority |-> t.priority, due |-> t.due,
             note |-> t.note, createdAt |-> t.createdAt]

\* node by node, g is f but for the fields done and completedAt of node id
SameButDone(f, g, id) ==
    /\ Paths(g) = Paths(f)
    /\ \A p \in Paths(f) :
           LET t == At(f, p)
               u == At(g, p)
           IN IF t.id = id
              THEN Shallow([u EXCEPT !.done = t.done, !.completedAt = t.completedAt])
                       = Shallow(t)
              ELSE Shallow(u) = Shallow(t)

\* node by node, g is f but for the field collapsed of node id
SameButCollapsed(f, g, id) ==
    /\ Paths(g) = Paths(f)
    /\ \A p \in Paths(f) :
           LET t == At(f, p)
               u == At(g, p)
           IN IF t.id = id
              THEN Shallow([u EXCEPT !.collapsed = t.collapsed]) = Shallow(t)
              ELSE Shallow(u) = Shallow(t)

\* one step of the App, for C25
C25_Step ==
    /\ (UniqueIds(tasks) /\ UniqueIds(tasks'))
           => \A id \in IdsIn(tasks) \cap IdsIn(tasks') :
                  Fixed(SubtreeOf(tasks', id)) = Fixed(SubtreeOf(tasks, id))
    /\ (last'.op = "toggleDone" /\ budget' # budget)
           => SameButDone(tasks, tasks', last'.id)
    /\ (last'.op = "toggleCollapse" /\ budget' # budget)
           => SameButCollapsed(tasks, tasks', last'.id)

\* C25: field immutability.  Over any sequence of commands, for as long as a
\* node stays in the forest its id, text, priority, due, note and createdAt never
\* change; toggleDone(id) changes only the fields done and completedAt of the
\* node with that id, and toggleCollapse(id) changes only its field collapsed;
\* every other node and the tree structure stay as they are.
C25_FieldImmutability == [][C25_Step]_vars

\* a node with a child, marked done by an earlier toggleDone, was folded by
\* toggleCollapse and still has its stamp and its child
C25_Witness ==
    /\ Ran("toggleCollapse")
    /\ last.id \in IdsIn(tasks)
    /\ LET t == SubtreeOf(tasks, last.id)
       IN /\ t.collapsed = Some(TRUE)
          /\ t.done /\ t.completedAt \in { Some(d) : d \in 0..MaxTime }
          /\ t.children # <<>>
          /\ Fixed(t) = Fixed(SubtreeOf(last.prev, last.id))

----------------------------------------------------------------------------
(* C26 *)

\* position p comes before position q in depth-first pre-order: p leads to q,
\* or p branches off to the left of q
Before(p, q) ==
    \/ Len(p) < Len(q) /\ SubSeq(q, 1, Len(p)) = p
    \/ \E k \in 1..Len(p) :
           /\ k <= Len(q)
           /\ SubSeq(p, 1, k - 1) = SubSeq(q, 1, k - 1)
           /\ p[k] < q[k]

\* C26: flatten.  For every forest flattenTasks returns a sequence that holds
\* every node of the forest exactly once, in depth-first pre-order: a node
\* before its children, the children in sibling order, a subtree completely
\* before the next sibling.  Its length is countTasks(forest).
C26_Flatten ==
    LET flat == flattenTasks(tasks)
    IN /\ Len(flat) = countTasks(tasks, always)
       /\ Len(flat) = Size(tasks)
       /\ \A p \in Paths(tasks) :
              \E i \in 1..Len(flat) :
                  /\ flat[i] = At(tasks, p)
                  /\ i = 1 + Cardinality({ q \in Paths(tasks) : Before(q, p) })

\* a root with a grandchild is followed by another root: the grandchild comes
\* third, the other root last
C26_Witness ==
    /\ Len(tasks) = 2
    /\ Len(tasks[1].children) = 1
    /\ Len(tasks[1].children[1].children) = 1
    /\ LET flat == flattenTasks(tasks)
       IN /\ Len(flat) = 4
          /\ flat[3] = tasks[1].children[1].children[1]
          /\ flat[4] = tasks[2]

----------------------------------------------------------------------------
(* C27 *)

\* C27: a generated report is never stale.  Whenever generatedReport is not null
\* while the report modal is open, it was set by a generation request that was
\* issued for the reportAnalysis now held; a request started before the modal
\* was closed and reopened does not fill generatedReport for the new analysis.
C27_ReportNeverStale ==
    (isReportModalOpen /\ generatedReport # Null) => generatedFor = reportAnalysis

----------------------------------------------------------------------------
(* C28 *)

\* C28: isGenerating tracks the outstanding request.  In every state of the
\* report flow isGenerating is true whenever the generation request started
\* last has not completed, and at most one generation request is outstanding.
C28_IsGeneratingTracks ==
    /\ (\E i \in 1..Len(requests) : requests[i].latest) => isGenerating
    /\ Len(requests) <= 1

----------------------------------------------------------------------------
(* C29 *)

\* C29: the at-risk condition collapses to one inequality.  For every node and
\* every time now, the test of problemTasks (not done, due set, and due < now or
\* due < now + 3 days) selects exactly the nodes with done = false, due set and
\* due strictly earlier than now + 3 days; a node due exactly at now + 3 days is
\* not at risk, and no node is in both completedTasks and problemTasks.
C29_AtRiskOneInequality ==
    /\ \A t \in NodesOf(tasks), date \in 0..MaxTime :
           /\ isProblemTask(t, date)
                  <=> (~t.done /\ Defined(t.due) /\ getTime(t.due[1]) < date + 3 * Day)
           /\ (Defined(t.due) /\ getTime(t.due[1]) = date + 3 * Day)
                  => ~isProblemTask(t, date)
           /\ ~(isCompletedTask(t, date) /\ isProblemTask(t, date))
    /\ Defined(reportAnalysis)
           => Range(reportAnalysis[1].completedTasks)
                  \cap Range(reportAnalysis[1].problemTasks) = {}

\* a report was opened exactly three days before an unfinished node is due:
\* the node is not listed, while a node due earlier is
C29_Witness ==
    /\ last.op = "handleOpenReportModal"
    /\ \E t \in NodesOf(tasks) :
           /\ ~t.done /\ Defined(t.due) /\ getTime(t.due[1]) = now + 3 * Day
           /\ t \notin Range(reportAnalysis[1].problemTasks)
    /\ \E t \in Range(reportAnalysis[1].problemTasks) :
           getTime(t.due[1]) >= now

----------------------------------------------------------------------------
(* C30 *)

\* dropAsChild(P, N) ran on a forest with unique ids in which N is a child of P
C30_Applies ==
    /\ Ran("dropAsChild")
    /\ last.id \in IdsIn(last.prev)
    /\ ParentId(last.prev, last.id) = last.parentId

\* C30: dropping a node onto its current parent reorders it.  For every forest
\* with unique ids and every non-root node N with parent P, dropAsChild(P, N)
\* keeps N a child of P and makes it the last child of P; the other children of
\* P keep their order and the rest of the forest is unchanged; the forest is
\* unchanged exactly when N was the last child of P already.
C30_DropOnParentReorders ==
    C30_Applies =>
        LET N == last.id
            P == last.parentId
            was == ChildIds(last.prev, P)
        IN /\ UniqueIds(tasks)
           /\ IdsIn(tasks) = IdsIn(last.prev)
           /\ ChildIds(tasks, P) = Append(Without(was, {N}), N)
           /\ \A q \in (IdsIn(last.prev) \cup {Root}) \ {P} :
                  ChildIds(tasks, q) = ChildIds(last.prev, q)
           /\ \A x \in IdsIn(last.prev) :
                  Shallow(SubtreeOf(tasks, x)) = Shallow(SubtreeOf(last.prev, x))
           /\ (tasks = last.prev) <=> (was[Len(was)] = N)

\* the first of two children was dropped onto its parent and is now the second
C30_Witness ==
    /\ C30_Applies
    /\ Len(ChildIds(last.prev, last.parentId)) = 2
    /\ ChildIds(last.prev, last.parentId)[1] = last.id
    /\ ChildIds(tasks, last.parentId)[2] = last.id
    /\ tasks # last.prev

====
